---- MODULE Spec2Model ----
(***************************************************************************)
(* The simulation session engine of panopticon (simulation_engine.py) and  *)
(* the direct-message handlers of app.py that drive it, for one child.     *)
(*                                                                         *)
(* Text is a sequence of one-character strings, so that strip, lower,      *)
(* startswith, split and splitlines are computed character by character.   *)
(***************************************************************************)
EXTENDS Integers, Sequences, FiniteSets, TLC

\* ------------------------------------------------------------------------
\* Bounds of the model
\* ------------------------------------------------------------------------
MaxMessages == 2
MaxSessions == 1
MaxReplyLines == 3
MaxTurnLines == 2
MaxEvalLines == 3
MaxAge == 60
MaxStored == 3
MaxSendSessions == 2
MaxAppMessages == 2
MaxAppSessions == 2
MaxLinkMessages == 4
MaxLinkSessions == 2

\* ------------------------------------------------------------------------
\* str methods used by the engine
\* ------------------------------------------------------------------------
\* Python's None, for a string field (a label, a tag), for a text field (a text
\* is a sequence, and "" is not None), for an id and for a returned value
None == "None"
NoText == <<None>>
NoId == <<>>
Nothing == <<>>

UpperCase == <<"A", "B", "C", "D", "E", "F", "G", "H", "I", "J", "K", "L", "M",
               "N", "O", "P", "Q", "R", "S", "T", "U", "V", "W", "X", "Y", "Z">>
LowerCase == <<"a", "b", "c", "d", "e", "f", "g", "h", "i", "j", "k", "l", "m",
               "n", "o", "p", "q", "r", "s", "t", "u", "v", "w", "x", "y", "z">>

SetMin(S) == CHOOSE x \in S : \A y \in S : x <= y
SetMax(S) == CHOOSE x \in S : \A y \in S : x >= y

LowerOf == [c \in {UpperCase[i] : i \in 1..26} |->
               LowerCase[CHOOSE i \in 1..26 : UpperCase[i] = c]]
UpperOf == [c \in {LowerCase[i] : i \in 1..26} |->
               UpperCase[CHOOSE i \in 1..26 : LowerCase[i] = c]]

LowerChar(c) == IF c \in DOMAIN LowerOf THEN LowerOf[c] ELSE c
UpperChar(c) == IF c \in DOMAIN UpperOf THEN UpperOf[c] ELSE c

\* str.lower()
Lower(s) == [i \in 1..Len(s) |-> LowerChar(s[i])]

\* str.upper()
Upper(s) == [i \in 1..Len(s) |-> UpperChar(s[i])]

IsSpace(c) == c \in {" ", "\t", "\n", "\r"}

\* the index of the first character of s at or after i that is not a space
\* (Len(s) + 1 if none), and of the last one at or before i (0 if none)
RECURSIVE FirstNonSpace(_, _)
FirstNonSpace(s, i) ==
    IF i > Len(s) THEN i
    ELSE IF IsSpace(s[i]) THEN FirstNonSpace(s, i + 1) ELSE i

RECURSIVE LastNonSpace(_, _)
LastNonSpace(s, i) ==
    IF i < 1 THEN i
    ELSE IF IsSpace(s[i]) THEN LastNonSpace(s, i - 1) ELSE i

\* str.strip()
Strip(s) == SubSeq(s, FirstNonSpace(s, 1), LastNonSpace(s, Len(s)))

\* str.startswith(p)
StartsWith(s, p) == Len(s) >= Len(p) /\ SubSeq(s, 1, Len(p)) = p

\* sub in s
Contains(s, sub) ==
    \E i \in 1..(Len(s) - Len(sub) + 1) : SubSeq(s, i, i + Len(sub) - 1) = sub

\* s.find(c) from index i on: the index of the first c, or Len(s) + 1
RECURSIVE Find(_, _, _)
Find(s, c, i) ==
    IF i > Len(s) THEN i
    ELSE IF s[i] = c THEN i ELSE Find(s, c, i + 1)

\* s.split(":", 1)[1], for a string s that contains a colon
AfterColon(s) == SubSeq(s, Find(s, ":", 1) + 1, Len(s))

\* str.splitlines(), with "\n" the line boundary
RECURSIVE SplitLines(_)
SplitLines(s) ==
    IF s = <<>> THEN <<>>
    ELSE LET k == Find(s, "\n", 1)
         IN  IF k > Len(s) THEN <<s>>
             ELSE <<SubSeq(s, 1, k - 1)>> \o SplitLines(SubSeq(s, k + 1, Len(s)))

\* "\n".join(lines)
RECURSIVE JoinLines(_)
JoinLines(lines) ==
    IF lines = <<>> THEN <<>>
    ELSE IF Len(lines) = 1 THEN lines[1]
    ELSE lines[1] \o <<"\n">> \o JoinLines(Tail(lines))

\* ------------------------------------------------------------------------
\* Words of the reply protocols
\* ------------------------------------------------------------------------
Sp == <<" ">>
Nl == <<"\n">>
MessagePrefix  == <<"m", "e", "s", "s", "a", "g", "e", ":">>
EndStatePrefix == <<"e", "n", "d", "s", "t", "a", "t", "e", ":">>
MessageLabel   == <<"M", "e", "s", "s", "a", "g", "e", ":">>
EndStateLabel  == <<"E", "n", "d", "S", "t", "a", "t", "e", ":">>
ReasonLabel    == <<"R", "e", "a", "s", "o", "n", ":">>
WordNONE       == <<"N", "O", "N", "E">>
WordCONTINUE   == <<"C", "O", "N", "T", "I", "N", "U", "E">>
WordEND        == <<"E", "N", "D">>

LabelPrefix   == <<"l", "a", "b", "e", "l", ":">>
SummaryPrefix == <<"s", "u", "m", "m", "a", "r", "y", ":">>
WordSAFE      == <<"S", "A", "F", "E">>
WordUNSAFE    == <<"U", "N", "S", "A", "F", "E">>
WordNEEDS_REVIEW == <<"N", "E", "E", "D", "S", "_", "R", "E", "V", "I", "E", "W">>
WordNEEDSREVIEW  == <<"N", "E", "E", "D", "S", " ", "R", "E", "V", "I", "E", "W">>

\* ------------------------------------------------------------------------
\* What the completion backend is taken to answer, at each of the three calls
\* ------------------------------------------------------------------------
GeneratedOpener == <<"H", "i", "!", " ", "W", "h", "e", "r", "e", " ", "d", "o", " ",
                     "y", "o", "u", " ", "l", "i", "v", "e", "?">>
StartContents == {GeneratedOpener}

HeyThere == <<"H", "e", "y", " ", "t", "h", "e", "r", "e", "!">>
Bye == <<"B", "y", "e", "!">>
ReplyHeyContinue ==
    MessageLabel \o Sp \o HeyThere \o Nl \o EndStateLabel \o Sp \o WordCONTINUE \o Nl
        \o ReasonLabel \o Sp \o <<"t", "e", "s", "t", "i", "n", "g">>
ReplyNoneEnd ==
    MessageLabel \o Sp \o WordNONE \o Nl \o EndStateLabel \o Sp \o WordEND \o Nl
        \o ReasonLabel \o Sp \o <<"d", "o", "n", "e">>
ReplyByeEnd ==
    MessageLabel \o Sp \o Bye \o Nl \o EndStateLabel \o Sp \o WordEND
ReplyEndOnly == EndStateLabel \o Sp \o WordEND
TurnContents == {ReplyHeyContinue, ReplyNoneEnd, ReplyByeEnd}

\* lines a turn reply is put together from: labels in any case, spaces
\* around, end states that only resemble END, a blank line
ReplyLines == {
    MessageLabel \o Sp \o HeyThere,
    <<"m", "e", "s", "s", "a", "g", "e", ":">> \o Sp \o WordNONE,
    <<"M", "E", "S", "S", "A", "G", "E", ":">> \o Bye,
    EndStateLabel \o Sp \o WordEND,
    EndStateLabel \o Sp \o WordEND \o <<".">>,
    EndStateLabel \o Sp \o <<"e", "n", "d", "e", "d">>,
    EndStateLabel,
    <<" ", "e", "n", "d", "s", "t", "a", "t", "e", ":", " ",
      "c", "o", "n", "t", "i", "n", "u", "e", " ">>,
    ReasonLabel \o Sp \o <<"t", "e", "s", "t", "i", "n", "g">>,
    <<" ">> }

RepliesOfLines(n) == {JoinLines(ls) : ls \in [1..n -> ReplyLines]}
\* the replies given to a turn of a session on its own, the empty content
\* (no line at all) among them
TurnReplies == UNION {RepliesOfLines(n) : n \in 0..MaxTurnLines}

PhoneNumber == <<"c", "h", "i", "l", "d", " ", "s", "h", "a", "r", "e", "d", " ",
                 "p", "h", "o", "n", "e", " ", "n", "u", "m", "b", "e", "r">>
EvalUnsafe ==
    <<"L", "a", "b", "e", "l", ":", " ">> \o WordUNSAFE \o Nl
        \o <<"S", "u", "m", "m", "a", "r", "y", ":", " ">> \o PhoneNumber
EvalNoLabel == <<"W", "e", "l", "l", " ", "d", "o", "n", "e", ".">>
EvalContents == {EvalUnsafe}

\* lines an evaluation reply is put together from
LabelLineUnsafe == <<"L", "a", "b", "e", "l", ":", " ">> \o WordUNSAFE
LabelLineMostlySafe == <<" ", "l", "a", "b", "e", "l", ":", " ", "m", "o", "s", "t", "l", "y", " ", "s", "a", "f", "e">>
LabelLineNeedsReview == <<"L", "A", "B", "E", "L", ":", " ", "n", "e", "e", "d", "s", " ", "r", "e", "v", "i", "e", "w">>
LabelLineUnclear == <<"L", "a", "b", "e", "l", ":", " ", "u", "n", "c", "l", "e", "a", "r">>
SummaryLine == <<"S", "u", "m", "m", "a", "r", "y", ":", " ">> \o PhoneNumber
SummaryLineEmpty == <<"S", "u", "m", "m", "a", "r", "y", ":">>
PlainLine == <<" ">> \o EvalNoLabel \o <<" ">>
EvalLines == {LabelLineUnsafe, LabelLineMostlySafe, LabelLineNeedsReview,
              LabelLineUnclear, SummaryLine, SummaryLineEmpty, PlainLine}

\* the replies given to an evaluation on its own
EvalReplies == UNION {{JoinLines(ls) : ls \in [1..n -> EvalLines]} : n \in 1..MaxEvalLines}


\* ------------------------------------------------------------------------
\* scenarios.py: the catalog.  A template is a sequence of text fragments
\* and placeholders; the emoji of the canned messages are written (emoji).
\* ------------------------------------------------------------------------
ChildNamePlaceholder == "{child_name}"

DEFAULT_SCENARIOS == <<
    [id |-> "stranger_asking_address",
     recommended_age_min |-> 8, recommended_age_max |-> 15,
     canned_message_template |->
        <<"Hey ", ChildNamePlaceholder,
          ", you seem really cool! What city do you live in? (emoji)">>],
    [id |-> "peer_pressure_share_photo",
     recommended_age_min |-> 10, recommended_age_max |-> 17,
     canned_message_template |->
        <<"Everyone is sending selfies in the group (emoji) you should send one too, ",
          ChildNamePlaceholder, "!">>],
    [id |-> "unfriendly_comment",
     recommended_age_min |-> 8, recommended_age_max |-> 17,
     canned_message_template |->
        <<"You post about that game a lot, ", ChildNamePlaceholder,
          "... it's kind of lame tbh.">>] >>

NoScenario == [id |-> None]

\* a variant that answers an unknown id with the first catalog entry
get_scenario_by_id_or_default(scenario_id) ==
    LET hits == {i \in 1..Len(DEFAULT_SCENARIOS) : DEFAULT_SCENARIOS[i].id = scenario_id}
    IN  IF hits = {} THEN DEFAULT_SCENARIOS[1] ELSE DEFAULT_SCENARIOS[SetMin(hits)]

\* get_scenario_by_id: the first catalog entry with that id, or None
get_scenario_by_id(scenario_id) ==
    LET hits == {i \in 1..Len(DEFAULT_SCENARIOS) : DEFAULT_SCENARIOS[i].id = scenario_id}
    IN  IF hits = {} THEN NoScenario ELSE DEFAULT_SCENARIOS[SetMin(hits)]

\* a variant that leaves out the scenarios whose highest age is the age asked
get_scenarios_for_child_age_below_max(a) ==
    SelectSeq(DEFAULT_SCENARIOS,
              LAMBDA s : s.recommended_age_min <= a /\ a < s.recommended_age_max)

\* get_scenarios_for_child_age: the catalog entries whose range holds the age
get_scenarios_for_child_age(a) ==
    SelectSeq(DEFAULT_SCENARIOS,
              LAMBDA s : s.recommended_age_min <= a /\ a <= s.recommended_age_max)

\* template.format(child_name=name)
RECURSIVE FormatTemplate(_, _)
FormatTemplate(template, name) ==
    IF template = <<>> THEN <<>>
    ELSE (IF Head(template) = ChildNamePlaceholder THEN name ELSE <<Head(template)>>)
            \o FormatTemplate(Tail(template), name)

\* ------------------------------------------------------------------------
\* llm_client.py: the completion gateway.  What the backend produces is an
\* input of the model: a transport error, or the content of its answer.
\* ------------------------------------------------------------------------
TransportError == [error |-> TRUE, content |-> <<>>]
Produced(content) == [error |-> FALSE, content |-> content]

Raised == [ok |-> FALSE, text |-> <<>>]
Returned(text) == [ok |-> TRUE, text |-> text]

\* call_openai: (content or "").strip()
call_openai(produced) ==
    IF produced.error THEN Raised ELSE Returned(Strip(produced.content))

\* call_ollama: an empty content raises, any other is stripped
call_ollama(produced) ==
    IF produced.error THEN Raised
    ELSE IF produced.content = <<>> THEN Raised
    ELSE Returned(Strip(produced.content))

call_llm(backend, produced) ==
    IF backend = "ollama" THEN call_ollama(produced) ELSE call_openai(produced)

StartProduced == {TransportError} \cup {Produced(c) : c \in StartContents}
TurnProduced == {TransportError} \cup {Produced(c) : c \in TurnContents}
EvalProduced == {TransportError} \cup {Produced(c) : c \in EvalContents}

\* every text the gateway can hand to the two parsers
Backends == {"openai", "ollama"}
TurnAnswers ==
    {call_llm(b, p).text :
        b \in Backends, p \in TurnProduced \cup {Produced(r) : r \in TurnReplies}}
EvalAnswers ==
    {call_llm(b, p).text :
        b \in Backends, p \in EvalProduced \cup {Produced(r) : r \in EvalReplies}}

\* ------------------------------------------------------------------------
\* State: one child of the garden, the child's message store and sessions
\* ------------------------------------------------------------------------
VARIABLES
    child,              \* ChildState: config.name, config.age, profile_id
    sim_llm_config,     \* get_sim_llm_config(): (backend, model_name)
    dm_messages,        \* child.dm_messages
    simulation_events,  \* child.simulation_events
    last,               \* the last operation: its inputs and what it returned
    reply,              \* a completion handed to a parser on its own
    parsed,             \* what the turn parser made of reply
    age,                \* the age get_scenarios_for_child_age is asked about
    scenarios,          \* the ids of the scenarios it returned, in order
    history_max,        \* the max_messages given to _build_chat_history_for_conv
    calls,              \* the calls of generate in progress, per caller
    rendered            \* the text it returned

engine_vars == <<child, sim_llm_config, dm_messages, simulation_events, last>>
parser_vars == <<reply, parsed>>
catalog_vars == <<age, scenarios>>
history_vars == <<history_max, rendered>>
vars == <<child, sim_llm_config, dm_messages, simulation_events, last, reply, parsed,
          age, scenarios, history_max, rendered, calls>>

\* the callers that may be inside generate_agent_reply_for_session at once,
\* and where each of them is: before the call ("idle"), waiting for the
\* gateway's answer ("waiting") or returned ("returned", with whether it ran
\* the evaluation and wrote the outcome)
Callers == {"first", "second"}
NoCalls == [c \in Callers |-> [stage |-> "idle", evaluated |-> FALSE]]

\* max_messages: int = 12
MaxHistoryMessages == 12

ChildId == "child_1"
Partners == {"profile_a", "profile_b"}
UnknownScenarioId == "no_such_scenario"
ScenarioIds == {DEFAULT_SCENARIOS[i].id : i \in 1..Len(DEFAULT_SCENARIOS)}
StartScenarioIds == {"stranger_asking_address", "unfriendly_comment", UnknownScenarioId}

Children == {
    [name |-> <<"A", "v", "a">>, age |-> 9, profile_id |-> "profile_child"] }

\* get_sim_llm_config() with nothing set in the session state
SimLlmConfigs == {[backend |-> "openai", model_name |-> "gpt-4.1-mini"]}

\* conv_{child.id}_{other_profile_id}
ConvId(partner) == <<"conv", ChildId, partner>>

\* datetime.utcnow(): each call reads an instant after every timestamp
\* already stored
Latest ==
    SetMax({0} \cup {dm_messages[i].created_at : i \in 1..Len(dm_messages)}
               \cup {simulation_events[i].created_at : i \in 1..Len(simulation_events)})
Nows == {Latest + 1}

\* last: the operation, the scenario id given to a start, the session it was
\* about, whether it raised, the message and the pair it returned, what
\* each call of the gateway gave, in order, the conv_id a turn was asked
\* for on its own, and the transcript an evaluation was given
NoCall == [op |-> "init", scenario_id |-> None, event |-> NoId, raised |-> FALSE,
           message |-> NoId, result |-> Nothing, llm |-> <<>>, conv_id |-> NoId,
           transcript |-> NoText]

Init ==
    /\ child \in Children
    /\ sim_llm_config \in SimLlmConfigs
    /\ dm_messages = <<>>
    /\ simulation_events = <<>>
    /\ last = NoCall
    /\ reply = <<>>
    /\ parsed = Nothing
    /\ age = child.age
    /\ scenarios = <<>>
    /\ history_max = MaxHistoryMessages
    /\ rendered = <<>>
    /\ calls = NoCalls

\* ------------------------------------------------------------------------
\* simulation_engine.py: start_simulation_session
\* ------------------------------------------------------------------------
\* a variant that falls back to the template without filling in the name
StartTextUnformatted(scenario, answer) ==
    IF answer.ok THEN answer.text
    ELSE scenario.canned_message_template

\* try: text = call_llm(...) except Exception: text = canned message
StartText(scenario, answer) ==
    IF answer.ok THEN answer.text
    ELSE FormatTemplate(scenario.canned_message_template, child.name)

\* DMMessage(...) from the partner to the child
SimMessage(id, conv_id, partner, text, now, tag) ==
    [id |-> id, conversation_id |-> conv_id,
     sender_profile_id |-> partner, receiver_profile_id |-> child.profile_id,
     text |-> text, created_at |-> now,
     is_simulation |-> TRUE, simulation_tag |-> tag]

\* a variant that does not link the session to its opening message
NewSimulationEventUnlinked(id, scenario, partner, now, msg_id, backend, model_name) ==
    [id |-> id, scenario_id |-> scenario.id, partner_profile_id |-> partner,
     created_at |-> now, incoming_message_id |-> NoId,
     child_reply_message_id |-> NoId, outcome_label |-> None,
     backend_used |-> backend, model_used |-> model_name,
     is_active |-> TRUE, evaluation_summary |-> NoText]

\* SimulationEvent(...) as start_simulation_session builds it
NewSimulationEvent(id, scenario, partner, now, msg_id, backend, model_name) ==
    [id |-> id, scenario_id |-> scenario.id, partner_profile_id |-> partner,
     created_at |-> now, incoming_message_id |-> msg_id,
     child_reply_message_id |-> NoId, outcome_label |-> None,
     backend_used |-> backend, model_used |-> model_name,
     is_active |-> TRUE, evaluation_summary |-> NoText]

\* make_id("dm"), make_id("sim"): ids never used before
NewMessageId(msgs) == <<"dm", Len(msgs) + 1>>
NewEventId(events) == <<"sim", Len(events) + 1>>

start_simulation_session(scenario_id, partner, backend, model_name, conv_id, produced, now) ==
    LET scenario == get_scenario_by_id(scenario_id)
        answer == call_llm(backend, produced)
        sim_msg == SimMessage(NewMessageId(dm_messages), conv_id, partner,
                              StartText(scenario, answer), now, scenario.id)
        event == NewSimulationEvent(NewEventId(simulation_events), scenario, partner, now, sim_msg.id,
                                    backend, model_name)
    IN  IF scenario = NoScenario
        THEN /\ last' = [NoCall EXCEPT !.op = "start", !.scenario_id = scenario_id,
                                       !.raised = TRUE]
             /\ UNCHANGED <<dm_messages, simulation_events>>
        ELSE /\ dm_messages' = Append(dm_messages, sim_msg)
             /\ simulation_events' = Append(simulation_events, event)
             /\ last' = [NoCall EXCEPT !.op = "start", !.scenario_id = scenario_id,
                                       !.event = event.id,
                                       !.message = sim_msg.id, !.llm = <<answer>>]

\* the step stays within a store of max_messages messages and max_sessions
\* sessions
Within(max_messages, max_sessions) ==
    /\ Len(dm_messages') <= max_messages
    /\ Len(simulation_events') <= max_sessions

\* a direct call of start_simulation_session
StartStep ==
    \E scenario_id \in StartScenarioIds, partner \in Partners,
       produced \in StartProduced,
       now \in Nows :
        /\ start_simulation_session(scenario_id, partner, sim_llm_config.backend,
                                    sim_llm_config.model_name, ConvId(partner),
                                    produced, now)
        /\ UNCHANGED <<child, sim_llm_config, parser_vars, catalog_vars, history_vars, calls>>

StartSession == StartStep /\ Within(MaxMessages, MaxSessions)

\* ------------------------------------------------------------------------
\* simulation_engine.py: _build_chat_history_for_conv
\* ------------------------------------------------------------------------
\* [m for m in msgs if m.conversation_id == conv_id]
RECURSIVE InConversation(_, _)
InConversation(msgs, conv_id) ==
    IF msgs = <<>> THEN <<>>
    ELSE (IF Head(msgs).conversation_id = conv_id THEN <<Head(msgs)>> ELSE <<>>)
            \o InConversation(Tail(msgs), conv_id)

\* list.sort(key=created_at): stable, ascending
RECURSIVE InsertByCreatedAt(_, _)
InsertByCreatedAt(sorted, m) ==
    IF sorted = <<>> THEN <<m>>
    ELSE IF sorted[Len(sorted)].created_at <= m.created_at THEN Append(sorted, m)
    ELSE Append(InsertByCreatedAt(SubSeq(sorted, 1, Len(sorted) - 1), m),
                sorted[Len(sorted)])

RECURSIVE SortByCreatedAt(_)
SortByCreatedAt(msgs) ==
    IF msgs = <<>> THEN <<>>
    ELSE InsertByCreatedAt(SortByCreatedAt(SubSeq(msgs, 1, Len(msgs) - 1)),
                           msgs[Len(msgs)])

\* a variant that keeps the oldest messages
FirstN(msgs, n) ==
    IF n = 0 \/ Len(msgs) <= n THEN msgs ELSE SubSeq(msgs, 1, n)

\* msgs[-max_messages:] for max_messages >= 0 (msgs[-0:] is the whole list)
LastN(msgs, n) ==
    IF n = 0 \/ Len(msgs) <= n THEN msgs
    ELSE SubSeq(msgs, Len(msgs) - n + 1, Len(msgs))

\* f"{sender_label}: {m.text}"
HistoryLine(m) ==
    (IF m.sender_profile_id = child.profile_id
     THEN <<"C", "H", "I", "L", "D">>
     ELSE <<"P", "A", "R", "T", "N", "E", "R">>)
        \o <<":", " ">> \o m.text

HistoryWindow(msgs, conv_id, max_messages) ==
    LastN(SortByCreatedAt(InConversation(msgs, conv_id)), max_messages)

_build_chat_history_for_conv(msgs, conv_id, max_messages) ==
    LET window == HistoryWindow(msgs, conv_id, max_messages)
    IN  JoinLines([i \in 1..Len(window) |-> HistoryLine(window[i])])

\* ------------------------------------------------------------------------
\* simulation_engine.py: evaluate_simulation_session
\* ------------------------------------------------------------------------
\* line.lower().strip().startswith("label:")
IsLabelLine(line) == StartsWith(Strip(Lower(line)), LabelPrefix)

\* a variant that looks for SAFE first
LabelOfSafeFirst(raw) ==
    IF Contains(raw, WordSAFE) THEN "SAFE"
    ELSE IF Contains(raw, WordUNSAFE) THEN "UNSAFE"
    ELSE "NEEDS_REVIEW"

\* the if / elif chain on the upper-cased label value
LabelOf(raw) ==
    IF Contains(raw, WordSAFE) /\ ~Contains(raw, WordUNSAFE) THEN "SAFE"
    ELSE IF Contains(raw, WordUNSAFE) THEN "UNSAFE"
    ELSE IF Contains(raw, WordNEEDS_REVIEW) \/ Contains(raw, WordNEEDSREVIEW)
         THEN "NEEDS_REVIEW"
    ELSE "NEEDS_REVIEW"

\* l for l in lines if not l.lower().strip().startswith("label:")
RECURSIVE WithoutLabelLines(_)
WithoutLabelLines(lines) ==
    IF lines = <<>> THEN <<>>
    ELSE (IF IsLabelLine(Head(lines)) THEN <<>> ELSE <<Head(lines)>>)
            \o WithoutLabelLines(Tail(lines))

\* a variant that keeps the "Summary:" prefix
SummaryOfWithPrefix(lines) ==
    Strip(JoinLines(WithoutLabelLines(lines)))

\* the summary built when the label line is met
SummaryOf(lines) ==
    LET summary == Strip(JoinLines(WithoutLabelLines(lines)))
    IN  IF StartsWith(Lower(summary), SummaryPrefix)
        THEN Strip(AfterColon(summary))
        ELSE summary

\* a variant that builds the summary also when no label line is met
ParseEvaluationAlwaysSummary(resp) ==
    LET lines == SplitLines(resp)
        hits == {i \in 1..Len(lines) : IsLabelLine(lines[i])}
        label == IF hits = {} THEN "NEEDS_REVIEW"
                 ELSE LabelOf(Upper(Strip(AfterColon(lines[SetMin(hits)]))))
        summary == SummaryOf(lines)
    IN  [label |-> label,
         summary |-> IF summary # <<>> THEN summary ELSE Strip(resp)]

\* the parse of a response: the loop stops at the first label line
ParseEvaluation(resp) ==
    LET lines == SplitLines(resp)
        hits == {i \in 1..Len(lines) : IsLabelLine(lines[i])}
        label == IF hits = {} THEN "NEEDS_REVIEW"
                 ELSE LabelOf(Upper(Strip(AfterColon(lines[SetMin(hits)]))))
        summary == IF hits = {} THEN Strip(resp) ELSE SummaryOf(lines)
    IN  [label |-> label,
         summary |-> IF summary # <<>> THEN summary ELSE Strip(resp)]

\* ParseEvaluation of every answer, computed once
ParsedEvaluations == [resp \in EvalAnswers |-> ParseEvaluation(resp)]

\* a variant with no diagnostic text
ScenarioMissingBlank == <<>>

ScenarioMissing == <<"Scenario data missing; unable to evaluate.">>

\* a variant that does not say which backend and model failed
CouldNotRunUnnamed(backend, model_name) == <<"Could not run evaluation">>

\* f"Could not run evaluation ({backend} {model_name}): {e}"
CouldNotRun(backend, model_name) ==
    <<"Could not run evaluation (", backend, " ", model_name, "): ", "{e}">>

\* evaluate_simulation_session: the pair it returns, the gateway calls it
\* made and the chat transcript it put into the prompt
evaluate_simulation_session(msgs, event, backend, model_name, conv_id, produced) ==
    LET scenario == get_scenario_by_id(event.scenario_id)
        chat_history == _build_chat_history_for_conv(msgs, conv_id, MaxHistoryMessages)
        answer == call_llm(backend, produced)
    IN  IF scenario = NoScenario
        THEN [label |-> "NEEDS_REVIEW", summary |-> ScenarioMissing, llm |-> <<>>,
              transcript |-> NoText]
        ELSE IF ~answer.ok
        THEN [label |-> "NEEDS_REVIEW", summary |-> CouldNotRun(backend, model_name),
              llm |-> <<answer>>, transcript |-> chat_history]
        ELSE [label |-> ParsedEvaluations[answer.text].label,
              summary |-> ParsedEvaluations[answer.text].summary,
              llm |-> <<answer>>, transcript |-> chat_history]

\* ------------------------------------------------------------------------
\* simulation_engine.py: generate_agent_reply_for_session
\* ------------------------------------------------------------------------
\* [line.strip() for line in raw.splitlines() if line.strip()]
RECURSIVE StrippedLines(_)
StrippedLines(lines) ==
    IF lines = <<>> THEN <<>>
    ELSE (IF Strip(Head(lines)) # <<>> THEN <<Strip(Head(lines))>> ELSE <<>>)
            \o StrippedLines(Tail(lines))

\* the for loop over the lines: every matching line assigns its field
RECURSIVE ParseTurnLines(_, _)
ParseTurnLines(lines, fields) ==
    IF lines = <<>> THEN fields
    ELSE LET line == Head(lines)
             lower == Lower(line)
         IN  ParseTurnLines(Tail(lines),
                IF StartsWith(lower, MessagePrefix)
                THEN [fields EXCEPT !.message_text = Strip(AfterColon(line))]
                ELSE IF StartsWith(lower, EndStatePrefix)
                THEN [fields EXCEPT !.end_state = Upper(Strip(AfterColon(line)))]
                ELSE fields)

\* a variant whose default decision is END
ParseTurnReplyDefaultEnd(raw) ==
    ParseTurnLines(StrippedLines(SplitLines(raw)),
                   [message_text |-> <<>>, end_state |-> WordEND])

ParseTurnReply(raw) ==
    ParseTurnLines(StrippedLines(SplitLines(raw)),
                   [message_text |-> <<>>, end_state |-> WordCONTINUE])

\* ParseTurnReply of every answer, computed once
ParsedTurnReplies == [raw \in TurnAnswers |-> ParseTurnReply(raw)]

\* if message_text.upper() == "NONE": message_text = ""
VisibleText(message_text) ==
    IF Upper(message_text) = WordNONE THEN <<>> ELSE message_text

\* a variant that compares with the lower-case word
DecidesEndLowerCase(end_state) == end_state = Lower(WordEND)

\* a variant that takes every end state beginning with END
DecidesEndPrefix(end_state) == StartsWith(end_state, WordEND)

\* the decision of line 207
DecidesEnd(end_state) == end_state = WordEND

\* a variant that ends the session and loses the evaluation
EndedEventWithoutOutcome(event, evaluation) ==
    [event EXCEPT !.is_active = FALSE]

\* event.is_active = False, then the evaluation is stored on the event
EndedEvent(event, evaluation) ==
    [event EXCEPT !.is_active = FALSE,
                  !.outcome_label = evaluation.label,
                  !.evaluation_summary = evaluation.summary]

\* a variant in which a failed turn closes the child's sessions
TurnSkippedClosing(msgs, events, answer) ==
    [msgs |-> msgs,
     events |-> [j \in 1..Len(events) |-> [events[j] EXCEPT !.is_active = FALSE]],
     message |-> NoId, llm |-> <<answer>>, transcript |-> NoText]

\* except Exception: return None
TurnSkipped(msgs, events, answer) ==
    [msgs |-> msgs, events |-> events, message |-> NoId, llm |-> <<answer>>,
     transcript |-> NoText]

\* a variant in which the early returns leave every session ended
TurnNotAttemptedEnding(msgs, events) ==
    [msgs |-> msgs,
     events |-> [j \in 1..Len(events) |-> [events[j] EXCEPT !.is_active = FALSE]],
     message |-> NoId, llm |-> <<>>, transcript |-> NoText]

\* the early returns before the gateway is called
TurnNotAttempted(msgs, events) ==
    [msgs |-> msgs, events |-> events, message |-> NoId, llm |-> <<>>,
     transcript |-> NoText]

\* a variant that appends the turn's message without the scenario tag
WithTurnMessageUntagged(msgs, event, conv_id, text, now) ==
    IF text # <<>>
    THEN Append(msgs, SimMessage(NewMessageId(msgs), conv_id, event.partner_profile_id,
                                 text, now, None))
    ELSE msgs

\* a variant that writes the turn's message over the last stored one
WithTurnMessageOverLast(msgs, event, conv_id, text, now) ==
    IF text # <<>>
    THEN [msgs EXCEPT ![Len(msgs)] =
             SimMessage(NewMessageId(msgs), conv_id, event.partner_profile_id,
                        text, now, event.scenario_id)]
    ELSE msgs

\* the store after the turn's message, if any, is appended
WithTurnMessage(msgs, event, conv_id, text, now) ==
    IF text # <<>>
    THEN Append(msgs, SimMessage(NewMessageId(msgs), conv_id, event.partner_profile_id,
                                 text, now, event.scenario_id))
    ELSE msgs

\* a variant in which the evaluation reads the store as it was before the
\* turn's message
StoreBeforeTurnMessage(before, after) == before

\* the store evaluate_simulation_session reads (child.dm_messages at line
\* 211), given the store before and after the append of line 204
StoreAtEvaluation(before, after) == after

\* the session i of events is given the turn; the result is the store, the
\* sessions, the returned message (its id) and the gateway calls made
generate_agent_reply_for_session(msgs, events, i, backend, model_name, conv_id, produced, produced_eval, now) ==
    LET event == events[i]
        scenario == get_scenario_by_id(event.scenario_id)
        chat_history == _build_chat_history_for_conv(msgs, conv_id, MaxHistoryMessages)
        answer == call_llm(backend, produced)
        fields == ParsedTurnReplies[answer.text]
        message_text == VisibleText(fields.message_text)
        msgs1 == WithTurnMessage(msgs, event, conv_id, message_text, now)
        evaluation == evaluate_simulation_session(
                          StoreAtEvaluation(msgs, msgs1),
                          [event EXCEPT !.is_active = FALSE],
                          backend, model_name, conv_id, produced_eval)
    IN  IF scenario = NoScenario THEN TurnNotAttempted(msgs, events)
        ELSE IF chat_history = <<>> THEN TurnNotAttempted(msgs, events)
        ELSE IF ~answer.ok THEN TurnSkipped(msgs, events, answer)
        ELSE [msgs |-> msgs1,
              events |-> IF DecidesEnd(fields.end_state)
                         THEN [events EXCEPT ![i] = EndedEvent(event, evaluation)]
                         ELSE events,
              message |-> IF message_text # <<>> THEN NewMessageId(msgs) ELSE NoId,
              llm |-> IF DecidesEnd(fields.end_state)
                      THEN <<answer>> \o evaluation.llm
                      ELSE <<answer>>,
              transcript |-> IF DecidesEnd(fields.end_state)
                             THEN evaluation.transcript
                             ELSE NoText]

\* what the backend produces at the evaluation call nested in a turn: the
\* call is made only after a reply that decides END
SecondCall(backend, produced) ==
    IF call_llm(backend, produced).ok
       /\ DecidesEnd(ParsedTurnReplies[call_llm(backend, produced).text].end_state)
    THEN EvalProduced
    ELSE {TransportError}

\* a direct call of the engine on any session of the child
GenerateNextTurn ==
    \E i \in 1..Len(simulation_events), produced \in TurnProduced, now \in Nows :
      \E produced_eval \in SecondCall(sim_llm_config.backend, produced) :
      \E turn \in {generate_agent_reply_for_session(
                        dm_messages, simulation_events, i, sim_llm_config.backend,
                        sim_llm_config.model_name,
                        ConvId(simulation_events[i].partner_profile_id),
                        produced, produced_eval, now)} :
        /\ Len(turn.msgs) <= MaxMessages
        /\ dm_messages' = turn.msgs
        /\ simulation_events' = turn.events
        /\ last' = [NoCall EXCEPT !.op = "generate", !.event = simulation_events[i].id,
                                  !.message = turn.message, !.llm = turn.llm,
                                  !.transcript = turn.transcript]
        /\ UNCHANGED <<child, sim_llm_config, parser_vars, catalog_vars, history_vars, calls>>

\* a variant that writes the result onto the session it was given
EvaluatedEventStored(event, evaluation) ==
    [event EXCEPT !.outcome_label = evaluation.label,
                  !.evaluation_summary = evaluation.summary]

\* the session after evaluate_simulation_session returns: no field of event
\* is assigned in it
EvaluatedEvent(event, evaluation) == event

\* a direct call of evaluate_simulation_session: nothing but the returned pair
EvaluateSession ==
    \E i \in 1..Len(simulation_events), produced \in EvalProduced :
      \E evaluation \in {evaluate_simulation_session(
                              dm_messages, simulation_events[i], sim_llm_config.backend,
                              sim_llm_config.model_name,
                              ConvId(simulation_events[i].partner_profile_id), produced)} :
        /\ simulation_events' =
              [simulation_events EXCEPT
                  ![i] = EvaluatedEvent(simulation_events[i], evaluation)]
        /\ last' = [NoCall EXCEPT !.op = "evaluate", !.event = simulation_events[i].id,
                                  !.result = <<evaluation.label, evaluation.summary>>,
                                  !.llm = evaluation.llm,
                                  !.transcript = evaluation.transcript]
        /\ UNCHANGED <<child, sim_llm_config, dm_messages,
                        parser_vars, catalog_vars, history_vars, calls>>

\* ------------------------------------------------------------------------
\* app.py: dms_tab, the handlers of the conversation with one partner
\* ------------------------------------------------------------------------
\* the picked sessions of events, most recent created_at first
\* (sort(key=created_at, reverse=True) keeps the list order among equals):
\* the index of the first one, or 0
LatestIndex(events, picked) ==
    LET newest == SetMax({events[i].created_at : i \in picked})
    IN  IF picked = {} THEN 0
        ELSE SetMin({i \in picked : events[i].created_at = newest})

\* a variant that takes the first active session in list order, unsorted
ActiveEventIndexUnsorted(events, partner) ==
    SetMin({0} \cup {i \in 1..Len(events) :
                        /\ events[i].partner_profile_id = partner
                        /\ events[i].is_active})

\* active_events ... active_events[0]
ActiveEventIndex(events, partner) ==
    LatestIndex(events, {i \in 1..Len(events) :
                            /\ events[i].partner_profile_id = partner
                            /\ events[i].is_active})

\* pending_events ... pending_events[0]
PendingEventIndex(events, partner) ==
    LatestIndex(events, {i \in 1..Len(events) :
                            /\ events[i].partner_profile_id = partner
                            /\ events[i].child_reply_message_id = NoId})

\* lines 781-783: the evaluation is stored, then the session is made inactive
ManuallyEnded(event, evaluation) ==
    [event EXCEPT !.outcome_label = evaluation.label,
                  !.evaluation_summary = evaluation.summary,
                  !.is_active = FALSE]

\* the button "End simulation & evaluate", shown when the partner of the
\* open conversation, one of partners, has an active session
EndAndEvaluateWith(partners) ==
    \E partner \in partners, produced \in EvalProduced :
      \E k \in {ActiveEventIndex(simulation_events, partner)} :
        /\ k # 0
        /\ \E evaluation \in {evaluate_simulation_session(
                                  dm_messages, simulation_events[k], sim_llm_config.backend,
                                  sim_llm_config.model_name, ConvId(partner), produced)} :
            /\ simulation_events' =
                  [simulation_events EXCEPT
                      ![k] = ManuallyEnded(simulation_events[k], evaluation)]
            /\ last' = [NoCall EXCEPT !.op = "end", !.event = simulation_events[k].id,
                                      !.result = <<evaluation.label, evaluation.summary>>,
                                      !.llm = evaluation.llm,
                                  !.transcript = evaluation.transcript]
            /\ UNCHANGED <<child, sim_llm_config, dm_messages, parser_vars, catalog_vars, history_vars, calls>>

EndAndEvaluate == EndAndEvaluateWith(Partners)

ChildTexts == {<<" ", "n", "o">>}

\* DMMessage(...) from the child to the partner
ChildMessage(id, conv_id, partner, text, now) ==
    [id |-> id, conversation_id |-> conv_id,
     sender_profile_id |-> child.profile_id, receiver_profile_id |-> partner,
     text |-> text, created_at |-> now,
     is_simulation |-> FALSE, simulation_tag |-> None]

\* a variant in which the child's reply also reopens the session it links to
WithChildReplyReopening(events, partner, msg_id) ==
    LET k == PendingEventIndex(events, partner)
    IN  IF k = 0 THEN events
        ELSE [events EXCEPT ![k].child_reply_message_id = msg_id,
                            ![k].is_active = TRUE]

\* lines 833-842: the message becomes the first reply of the latest session
\* with this partner that has none
WithChildReply(events, partner, msg_id) ==
    LET k == PendingEventIndex(events, partner)
    IN  IF k = 0 THEN events
        ELSE [events EXCEPT ![k].child_reply_message_id = msg_id]

\* lines 817-842: the child's message is appended and linked
ChildMessageSent(msgs, events, partner, text, now) ==
    [msgs |-> Append(msgs, ChildMessage(NewMessageId(msgs), ConvId(partner), partner,
                                        text, now)),
     events |-> WithChildReply(events, partner, NewMessageId(msgs))]

\* the button "Send" with a non-blank text, in the conversation with one of
\* partners, none of them a child profile (no mirrored copy is made)
ChildSendTo(partners) ==
    \E partner \in partners, new_text \in ChildTexts, now \in Nows :
      \E sent \in {ChildMessageSent(dm_messages, simulation_events, partner,
                                    Strip(new_text), now)} :
      \E k \in {ActiveEventIndex(sent.events, partner)} :
      \E produced \in IF k = 0 THEN {TransportError} ELSE TurnProduced :
      \E produced_eval \in SecondCall(sim_llm_config.backend, produced) :
      \E turn \in {IF k = 0 THEN TurnNotAttempted(sent.msgs, sent.events)
                    ELSE generate_agent_reply_for_session(
                            sent.msgs, sent.events, k, sim_llm_config.backend,
                            sim_llm_config.model_name, ConvId(partner),
                            produced, produced_eval, now + 1)} :
        /\ Strip(new_text) # <<>>
        /\ dm_messages' = turn.msgs
        /\ simulation_events' = turn.events
        /\ last' = [NoCall EXCEPT !.op = "send",
                                  !.event = IF k = 0 THEN NoId ELSE sent.events[k].id,
                                  !.message = turn.message, !.llm = turn.llm,
                                  !.transcript = turn.transcript]
        /\ UNCHANGED <<child, sim_llm_config, parser_vars, catalog_vars, history_vars, calls>>

ChildSendStep == ChildSendTo(Partners)

ChildSend == ChildSendStep /\ Within(MaxMessages, MaxSessions)

Next ==
    \/ StartSession
    \/ GenerateNextTurn
    \/ EvaluateSession
    \/ EndAndEvaluate
    \/ ChildSend

Spec == Init /\ [][Next]_vars

\* ------------------------------------------------------------------------
\* The sessions as the app's handlers drive them: a session is started from
\* the conversation with a partner or by the quick auto simulation, the child
\* sends, a session is ended by hand
\* ------------------------------------------------------------------------
\* the profiles the child has a session with, and the two it talks to anyway
KnownProfiles ==
    Partners \cup {simulation_events[i].partner_profile_id : i \in 1..Len(simulation_events)}

\* make_id("profile"): an id no profile has yet
NewProfileId == "profile_" \o ToString(Len(simulation_events) + 1)

\* the scenario ids the selectbox offers for the child's age
OfferedScenarioIds ==
    {get_scenarios_for_child_age(child.age)[i].id :
        i \in 1..Len(get_scenarios_for_child_age(child.age))}

\* a variant in which the start button is shown whatever the sessions are
StartOfferedAlways(events, partner) == TRUE

\* if active_event is None: ... the start button is shown
StartOffered(events, partner) == ActiveEventIndex(events, partner) = 0

\* the button "Start simulation session" in the conversation with a partner
AppStart ==
    \E partner \in KnownProfiles, scenario_id \in OfferedScenarioIds,
       produced \in StartProduced, now \in Nows :
        /\ StartOffered(simulation_events, partner)
        /\ start_simulation_session(scenario_id, partner, sim_llm_config.backend,
                                    sim_llm_config.model_name, ConvId(partner),
                                    produced, now)
        /\ UNCHANGED <<child, sim_llm_config, parser_vars, catalog_vars, history_vars, calls>>

\* the button "Run auto simulation now": a new synthetic profile is the partner
QuickAutoSimulation ==
    \E scenario_id \in OfferedScenarioIds, produced \in StartProduced, now \in Nows :
        /\ start_simulation_session(scenario_id, NewProfileId, sim_llm_config.backend,
                                    sim_llm_config.model_name, ConvId(NewProfileId),
                                    produced, now)
        /\ UNCHANGED <<child, sim_llm_config, parser_vars, catalog_vars, history_vars, calls>>

AppNext ==
    \/ AppStart /\ Within(MaxAppMessages, MaxAppSessions)
    \/ QuickAutoSimulation /\ Within(MaxAppMessages, MaxAppSessions)
    \/ ChildSendTo(KnownProfiles) /\ Within(MaxAppMessages, MaxAppSessions)
    \/ EndAndEvaluateWith(KnownProfiles)

AppSpec == Init /\ [][AppNext]_vars

\* the handlers of the conversations with Partners over a longer store, for
\* the links between the child's messages and the sessions
LinkNext ==
    \/ AppStart /\ Within(MaxLinkMessages, MaxLinkSessions)
    \/ ChildSendStep /\ Within(MaxLinkMessages, MaxLinkSessions)
    \/ EndAndEvaluate

LinkSpec == Init /\ [][LinkNext]_vars

\* ------------------------------------------------------------------------
\* One send of the child among several sessions: up to MaxSendSessions
\* sessions were started by calls of the engine, one after the other (so one
\* partner can have several active ones), some of them ended since
\* ------------------------------------------------------------------------
\* the store and the sessions after n starts, the k-th at instant k
RECURSIVE SessionsStarted(_)
SessionsStarted(n) ==
    LET started(st, partner) ==
            NewSimulationEvent(NewEventId(st.events),
                               get_scenario_by_id("stranger_asking_address"), partner, n,
                               NewMessageId(st.msgs), sim_llm_config.backend,
                               sim_llm_config.model_name)
        ended(st, partner) ==
            ManuallyEnded(started(st, partner),
                          [label |-> "UNSAFE", summary |-> PhoneNumber])
    IN  IF n = 0 THEN {[msgs |-> <<>>, events |-> <<>>]}
        ELSE {[msgs |-> Append(st.msgs,
                               SimMessage(NewMessageId(st.msgs), ConvId(partner), partner,
                                          GeneratedOpener, n, "stranger_asking_address")),
               events |-> Append(st.events, IF active THEN started(st, partner)
                                            ELSE ended(st, partner))] :
                 st \in SessionsStarted(n - 1), partner \in Partners,
                 active \in BOOLEAN}

SendInit ==
    /\ child \in Children
    /\ sim_llm_config \in SimLlmConfigs
    /\ \E n \in 0..MaxSendSessions : \E st \in SessionsStarted(n) :
          /\ dm_messages = st.msgs
          /\ simulation_events = st.events
    /\ last = NoCall
    /\ reply = <<>>
    /\ parsed = Nothing
    /\ age = child.age
    /\ scenarios = <<>>
    /\ history_max = MaxHistoryMessages
    /\ rendered = <<>>
    /\ calls = NoCalls

\* the child sends once
SendOnce == last.op = "init" /\ ChildSendStep

SendNext ==
    \/ SendOnce

SendSpec == SendInit /\ [][SendNext]_vars

\* ------------------------------------------------------------------------
\* The turn parser on its own: a completion of up to MaxReplyLines lines is
\* drawn, and the parser is applied to it as the engine applies it
\* ------------------------------------------------------------------------
ParserReplies == UNION {RepliesOfLines(n) : n \in 1..MaxReplyLines}

ParserInit ==
    /\ child \in Children
    /\ sim_llm_config \in SimLlmConfigs
    /\ dm_messages = <<>>
    /\ simulation_events = <<>>
    /\ last = NoCall
    /\ reply \in ParserReplies
    /\ parsed = Nothing
    /\ age = child.age
    /\ scenarios = <<>>
    /\ history_max = MaxHistoryMessages
    /\ rendered = <<>>
    /\ calls = NoCalls

\* raw = call_llm(...), then lines 174-183
ParseReply ==
    /\ parsed = Nothing
    /\ parsed' = ParseTurnReply(call_llm(sim_llm_config.backend, Produced(reply)).text)
    /\ UNCHANGED <<engine_vars, reply, catalog_vars, history_vars, calls>>

ParserNext ==
    \/ ParseReply

ParserSpec == ParserInit /\ [][ParserNext]_vars

\* ------------------------------------------------------------------------
\* One turn of a session that has just been started, the gateway answering
\* with a reply put together from ReplyLines
\* ------------------------------------------------------------------------
StartedScenarioIds == {"stranger_asking_address", "unfriendly_comment"}

\* the state start_simulation_session leaves behind on an empty store; the
\* session may also carry a scenario id the catalog does not (or no longer)
\* resolve
TurnInit ==
    /\ child \in Children
    /\ sim_llm_config \in SimLlmConfigs
    /\ \E scenario_id \in StartedScenarioIds \cup {UnknownScenarioId}, partner \in Partners :
          /\ dm_messages = <<SimMessage(NewMessageId(<<>>), ConvId(partner), partner,
                                       GeneratedOpener, 1, scenario_id)>>
          /\ simulation_events =
                <<NewSimulationEvent(NewEventId(<<>>), [id |-> scenario_id],
                                     partner, 1, NewMessageId(<<>>),
                                     sim_llm_config.backend, sim_llm_config.model_name)>>
    /\ last = NoCall
    /\ reply \in TurnReplies
    /\ parsed = Nothing
    /\ age = child.age
    /\ scenarios = <<>>
    /\ history_max = MaxHistoryMessages
    /\ rendered = <<>>
    /\ calls = NoCalls

\* generate_agent_reply_for_session on the session and a conv_id, the
\* conversation of the session or another one, the gateway answering reply
GenerateOnReply ==
    \E produced \in {Produced(reply)}, now \in Nows, partner \in Partners :
      \E produced_eval \in SecondCall(sim_llm_config.backend, produced) :
      \E turn \in {generate_agent_reply_for_session(
                        dm_messages, simulation_events, 1, sim_llm_config.backend,
                        sim_llm_config.model_name, ConvId(partner),
                        produced, produced_eval, now)} :
        /\ last.op = "init"
        /\ Len(turn.msgs) <= MaxMessages
        /\ dm_messages' = turn.msgs
        /\ simulation_events' = turn.events
        /\ last' = [NoCall EXCEPT !.op = "generate", !.event = simulation_events[1].id,
                                  !.message = turn.message, !.llm = turn.llm,
                                  !.transcript = turn.transcript,
                                  !.conv_id = ConvId(partner)]
        /\ UNCHANGED <<child, sim_llm_config, parser_vars, catalog_vars, history_vars, calls>>

TurnNext ==
    \/ GenerateOnReply

TurnSpec == TurnInit /\ [][TurnNext]_vars

\* ------------------------------------------------------------------------
\* Two calls of generate_agent_reply_for_session on one active session, each
\* of them suspended while the gateway works on its reply: nothing in the
\* function keeps the other call from running in between
\* ------------------------------------------------------------------------
\* lines 129-168: the session's scenario resolves, the conversation has
\* messages, the prompt is sent
CallGateway(c) ==
    /\ calls[c].stage = "idle"
    /\ get_scenario_by_id(simulation_events[1].scenario_id) # NoScenario
    /\ _build_chat_history_for_conv(
            dm_messages, ConvId(simulation_events[1].partner_profile_id),
            MaxHistoryMessages) # <<>>
    /\ calls' = [calls EXCEPT ![c].stage = "waiting"]
    /\ UNCHANGED <<engine_vars, parser_vars, catalog_vars, history_vars>>

\* lines 168-222: the gateway answers (or fails) and the call runs to its end
\* on the store and the session as they are by then
GatewayReturns(c) ==
    \E produced \in TurnProduced, now \in Nows :
      \E produced_eval \in SecondCall(sim_llm_config.backend, produced) :
      \E turn \in {generate_agent_reply_for_session(
                        dm_messages, simulation_events, 1, sim_llm_config.backend,
                        sim_llm_config.model_name,
                        ConvId(simulation_events[1].partner_profile_id),
                        produced, produced_eval, now)} :
        /\ calls[c].stage = "waiting"
        /\ dm_messages' = turn.msgs
        /\ simulation_events' = turn.events
        /\ last' = [NoCall EXCEPT !.op = "generate", !.event = simulation_events[1].id,
                                  !.message = turn.message, !.llm = turn.llm,
                                  !.transcript = turn.transcript]
        /\ calls' = [calls EXCEPT ![c] = [stage |-> "returned",
                                          evaluated |-> turn.transcript # NoText]]
        /\ UNCHANGED <<child, sim_llm_config, parser_vars, catalog_vars, history_vars>>

ConcNext ==
    \/ \E c \in Callers : CallGateway(c)
    \/ \E c \in Callers : GatewayReturns(c)

\* a freshly started session of a catalog scenario; no reply is fixed ahead
ConcInit ==
    /\ TurnInit
    /\ reply = <<>>
    /\ simulation_events[1].scenario_id \in StartedScenarioIds

ConcSpec == ConcInit /\ [][ConcNext]_vars

\* ------------------------------------------------------------------------
\* One evaluation of a session, the gateway failing or answering with a reply
\* put together from EvalLines
\* ------------------------------------------------------------------------
\* the sessions given to the evaluation: of a catalog scenario or not, still
\* active or already ended
EvalSessions ==
    LET started(scenario_id) ==
            NewSimulationEvent(NewEventId(<<>>), [id |-> scenario_id], "profile_a", 1,
                               NewMessageId(<<>>), sim_llm_config.backend,
                               sim_llm_config.model_name)
    IN  UNION {{started(id),
                EndedEvent(started(id), [label |-> "UNSAFE", summary |-> PhoneNumber])} :
               id \in {"stranger_asking_address", UnknownScenarioId}}

EvalInit ==
    /\ child \in Children
    /\ sim_llm_config \in SimLlmConfigs
    /\ dm_messages = <<SimMessage(NewMessageId(<<>>), ConvId("profile_a"), "profile_a",
                                  GeneratedOpener, 1, "stranger_asking_address")>>
    /\ \E event \in EvalSessions : simulation_events = <<event>>
    /\ last = NoCall
    /\ reply \in EvalReplies
    /\ parsed = Nothing
    /\ age = child.age
    /\ scenarios = <<>>
    /\ history_max = MaxHistoryMessages
    /\ rendered = <<>>
    /\ calls = NoCalls

\* evaluate_simulation_session on the session: the gateway fails or answers reply
EvaluateOnReply ==
    \E produced \in {TransportError, Produced(reply)} :
      \E evaluation \in {evaluate_simulation_session(
                              dm_messages, simulation_events[1], sim_llm_config.backend,
                              sim_llm_config.model_name,
                              ConvId(simulation_events[1].partner_profile_id), produced)} :
        /\ last.op = "init"
        /\ simulation_events' =
              [simulation_events EXCEPT
                  ![1] = EvaluatedEvent(simulation_events[1], evaluation)]
        /\ last' = [NoCall EXCEPT !.op = "evaluate", !.event = simulation_events[1].id,
                                  !.result = <<evaluation.label, evaluation.summary>>,
                                  !.llm = evaluation.llm,
                                  !.transcript = evaluation.transcript]
        /\ UNCHANGED <<child, sim_llm_config, dm_messages,
                        parser_vars, catalog_vars, history_vars, calls>>

EvalNext ==
    \/ EvaluateOnReply

EvalSpec == EvalInit /\ [][EvalNext]_vars

\* ------------------------------------------------------------------------
\* The catalog asked for the scenarios of one age
\* ------------------------------------------------------------------------
Ages == 0..MaxAge

CatalogInit ==
    /\ child \in Children
    /\ sim_llm_config \in SimLlmConfigs
    /\ dm_messages = <<>>
    /\ simulation_events = <<>>
    /\ last = NoCall
    /\ reply = <<>>
    /\ parsed = Nothing
    /\ age \in Ages
    /\ scenarios = <<>>
    /\ history_max = MaxHistoryMessages
    /\ rendered = <<>>
    /\ calls = NoCalls

\* scenarios = get_scenarios_for_child_age(child.config.age)
AskScenarios ==
    /\ last.op = "init"
    /\ scenarios' = get_scenarios_for_child_age(age)
    /\ last' = [NoCall EXCEPT !.op = "scenarios"]
    /\ UNCHANGED <<child, sim_llm_config, dm_messages, simulation_events,
                    parser_vars, age, history_vars, calls>>

CatalogNext ==
    \/ AskScenarios

CatalogSpec == CatalogInit /\ [][CatalogNext]_vars

\* ------------------------------------------------------------------------
\* The history of one conversation rendered from a store of up to MaxStored
\* messages, in two conversations, appended in any order of created_at
\* ------------------------------------------------------------------------
TextAt(created_at) == IF created_at = 1 THEN <<"o", "n", "e">> ELSE <<"t", "w", "o">>

\* the messages of the child with profile_a and with profile_b
StoredMessages(id) ==
    {[id |-> id, conversation_id |-> ConvId(partner),
      sender_profile_id |-> IF from_child THEN child.profile_id ELSE partner,
      receiver_profile_id |-> IF from_child THEN partner ELSE child.profile_id,
      text |-> TextAt(created_at), created_at |-> created_at,
      is_simulation |-> FALSE, simulation_tag |-> None] :
        partner \in Partners, from_child \in BOOLEAN, created_at \in 1..2}

Stores ==
    UNION {{msgs \in [1..n -> UNION {StoredMessages(<<"dm", k>>) : k \in 1..n}] :
                \A k \in 1..n : msgs[k].id = <<"dm", k>>} : n \in 0..MaxStored}

WindowSizes == {1, 2, MaxHistoryMessages}

HistoryInit ==
    /\ child \in Children
    /\ sim_llm_config \in SimLlmConfigs
    /\ dm_messages \in Stores
    /\ simulation_events = <<>>
    /\ last = NoCall
    /\ reply = <<>>
    /\ parsed = Nothing
    /\ age = child.age
    /\ scenarios = <<>>
    /\ history_max \in WindowSizes
    /\ rendered = <<>>
    /\ calls = NoCalls

\* _build_chat_history_for_conv(garden, child, conv_id, max_messages) for the
\* conversation with profile_a
RenderHistory ==
    /\ last.op = "init"
    /\ rendered' = _build_chat_history_for_conv(dm_messages, ConvId("profile_a"),
                                                history_max)
    /\ last' = [NoCall EXCEPT !.op = "history"]
    /\ UNCHANGED <<child, sim_llm_config, dm_messages, simulation_events,
                    parser_vars, catalog_vars, history_max, calls>>

HistoryNext ==
    \/ RenderHistory

HistorySpec == HistoryInit /\ [][HistoryNext]_vars

\* ------------------------------------------------------------------------
\* Properties
\* ------------------------------------------------------------------------
Labels == {"SAFE", "UNSAFE", "NEEDS_REVIEW"}

\* the session and the message an id stands for (ids are never reused)
EventOf(id) == simulation_events[id[2]]
MessageOf(id) == dm_messages[id[2]]

\* the gateway was called and gave a reply that decides END
ReplySaysEnd(call) ==
    /\ Len(call.llm) >= 1
    /\ call.llm[1].ok
    /\ ParseTurnReply(call.llm[1].text).end_state = WordEND

\* the text of the message the reply asks to send ("" for none)
ReplyMessage(call) == VisibleText(ParseTurnReply(call.llm[1].text).message_text)

\* C1: no session is inactive with its outcome unset; and a turn whose reply
\* says END leaves its session inactive with label and summary set, also when
\* the nested evaluation's gateway call failed.
C1_EndedHasOutcome ==
    /\ \A i \in 1..Len(simulation_events) :
          ~simulation_events[i].is_active
              => simulation_events[i].outcome_label \in Labels
    /\ (last.op = "generate" /\ ReplySaysEnd(last))
          => /\ ~EventOf(last.event).is_active
             /\ EventOf(last.event).outcome_label \in Labels
             /\ EventOf(last.event).evaluation_summary # NoText

C1_Witness ==
    /\ last.op = "generate"
    /\ ReplySaysEnd(last)
    /\ Len(last.llm) = 2
    /\ ~last.llm[2].ok
    /\ ~EventOf(last.event).is_active
    /\ EventOf(last.event).outcome_label = "NEEDS_REVIEW"

\* C2: a turn requested for a session that is inactive appends no message and
\* does not rewrite the session's label and summary.
C2_NoTurnOnceInactive ==
    [][\A i \in 1..Len(simulation_events) :
          (/\ ~simulation_events[i].is_active
           /\ last'.op = "generate"
           /\ last'.event = simulation_events[i].id)
              => /\ dm_messages' = dm_messages
                 /\ simulation_events'[i].outcome_label
                        = simulation_events[i].outcome_label
                 /\ simulation_events'[i].evaluation_summary
                        = simulation_events[i].evaluation_summary]_vars

CannedFor(scenario_id, name) ==
    CASE scenario_id = "stranger_asking_address" ->
            <<"Hey ">> \o name
                \o <<", you seem really cool! What city do you live in? (emoji)">>
      [] scenario_id = "peer_pressure_share_photo" ->
            <<"Everyone is sending selfies in the group (emoji) you should send one too, ">>
                \o name \o <<"!">>
      [] scenario_id = "unfriendly_comment" ->
            <<"You post about that game a lot, ">> \o name
                \o <<"... it's kind of lame tbh.">>

C4_StartFallsBack ==
    /\ (last.op = "start" /\ last.scenario_id \in ScenarioIds)
          => /\ ~last.raised
             /\ last.event # NoId
             /\ last.message # NoId
    /\ (last.op = "start" /\ last.llm # <<>> /\ ~last.llm[1].ok)
          => MessageOf(last.message).text = CannedFor(last.scenario_id, child.name)

C4_Witness ==
    /\ last.op = "start"
    /\ last.llm = <<Raised>>
    /\ ~last.raised
    /\ MessageOf(last.message).text
          = <<"Hey ", "A", "v", "a",
              ", you seem really cool! What city do you live in? (emoji)">>

\* C5: a start that succeeds appends exactly one message and exactly one
\* session: the session active with label, summary and child reply unset, the
\* message from the partner to the child, marked as simulation and tagged with
\* the scenario id, and the session's incoming_message_id the message's id.
C5_StartAppendsOne ==
    [][(last'.op = "start" /\ ~last'.raised)
          => /\ Len(dm_messages') = Len(dm_messages) + 1
             /\ SubSeq(dm_messages', 1, Len(dm_messages)) = dm_messages
             /\ Len(simulation_events') = Len(simulation_events) + 1
             /\ SubSeq(simulation_events', 1, Len(simulation_events)) = simulation_events
             /\ LET event == simulation_events'[Len(simulation_events')]
                    msg == dm_messages'[Len(dm_messages')]
                IN  /\ event.is_active
                    /\ event.outcome_label = None
                    /\ event.evaluation_summary = NoText
                    /\ event.child_reply_message_id = NoId
                    /\ event.scenario_id = last'.scenario_id
                    /\ event.partner_profile_id \in Partners
                    /\ msg.sender_profile_id = event.partner_profile_id
                    /\ msg.receiver_profile_id = child.profile_id
                    /\ msg.is_simulation
                    /\ msg.simulation_tag = last'.scenario_id
                    /\ event.incoming_message_id = msg.id
                    /\ last'.event = event.id
                    /\ last'.message = msg.id
                    /\ \A j \in 1..Len(dm_messages) : dm_messages[j].id # msg.id
                    /\ \A j \in 1..Len(simulation_events) :
                          simulation_events[j].id # event.id]_vars

C5_Witness ==
    /\ last.op = "start"
    /\ ~last.raised
    /\ Len(simulation_events) = 1
    /\ EventOf(last.event).incoming_message_id = last.message
    /\ MessageOf(last.message).simulation_tag = "unfriendly_comment"

\* C6: a start with a scenario id that is not in the catalog raises, calls the
\* gateway not at all, and leaves the store and the sessions as they were.
C6_UnknownScenarioRaises ==
    [][(last'.op = "start" /\ last'.scenario_id \notin ScenarioIds)
          => /\ last'.raised
             /\ last'.llm = <<>>
             /\ last'.event = NoId
             /\ last'.message = NoId
             /\ dm_messages' = dm_messages
             /\ simulation_events' = simulation_events]_vars

C6_Witness ==
    /\ last.op = "start"
    /\ last.scenario_id = UnknownScenarioId
    /\ last.raised
    /\ Len(simulation_events) = 1

\* C7: a turn whose gateway call failed returns no message without raising,
\* and leaves the store and every session as they were.
C7_FailedTurnSkipped ==
    [][(last'.op = "generate" /\ last'.llm # <<>> /\ ~last'.llm[1].ok)
          => /\ ~last'.raised
             /\ last'.message = NoId
             /\ Len(last'.llm) = 1
             /\ dm_messages' = dm_messages
             /\ simulation_events' = simulation_events]_vars

C7_Witness ==
    /\ last.op = "generate"
    /\ last.llm = <<Raised>>
    /\ EventOf(last.event).is_active
    /\ EventOf(last.event).outcome_label = None

\* C8: a turn for an active session whose reply carries a message (not empty,
\* not NONE) and EndState CONTINUE appends exactly one message, with the
\* reply's text, from the session's partner to the child, marked as simulation
\* and tagged with the session's scenario id, returns it, and leaves every
\* session as it was: active, outcome unset.
C8_ContinueAppendsOne ==
    [][\A i \in 1..Len(simulation_events) :
          (/\ last'.op = "generate"
           /\ last'.event = simulation_events[i].id
           /\ simulation_events[i].is_active
           /\ Len(last'.llm) >= 1
           /\ last'.llm[1].ok
           /\ ReplyMessage(last') # <<>>
           /\ ParseTurnReply(last'.llm[1].text).end_state = WordCONTINUE)
              => /\ Len(dm_messages') = Len(dm_messages) + 1
                 /\ SubSeq(dm_messages', 1, Len(dm_messages)) = dm_messages
                 /\ LET msg == dm_messages'[Len(dm_messages')]
                    IN  /\ msg.text = ReplyMessage(last')
                        /\ last'.llm[1].text = ReplyHeyContinue => msg.text = HeyThere
                        /\ msg.sender_profile_id = simulation_events[i].partner_profile_id
                        /\ msg.receiver_profile_id = child.profile_id
                        /\ msg.is_simulation
                        /\ msg.simulation_tag = simulation_events[i].scenario_id
                        /\ last'.message = msg.id
                        /\ \A j \in 1..Len(dm_messages) : dm_messages[j].id # msg.id
                 /\ simulation_events' = simulation_events
                 /\ simulation_events'[i].is_active
                 /\ simulation_events'[i].outcome_label = None
                 /\ simulation_events'[i].evaluation_summary = NoText]_vars

C8_Witness ==
    /\ last.op = "generate"
    /\ last.llm = <<Returned(ReplyHeyContinue)>>
    /\ last.message # NoId
    /\ MessageOf(last.message).text = HeyThere
    /\ EventOf(last.event).is_active

\* the pair the evaluation returns for what its gateway call gave
EvaluationFor(answer) ==
    IF ~answer.ok
    THEN <<"NEEDS_REVIEW", CouldNotRun(sim_llm_config.backend, sim_llm_config.model_name)>>
    ELSE IF answer.text = EvalUnsafe THEN <<"UNSAFE", PhoneNumber>>
    ELSE <<ParseEvaluation(answer.text).label, ParseEvaluation(answer.text).summary>>

RECURSIVE FirstLineWith(_, _)
FirstLineWith(lines, prefix) ==
    IF lines = <<>> THEN <<>>
    ELSE IF StartsWith(Lower(Head(lines)), prefix) THEN Head(lines)
    ELSE FirstLineWith(Tail(lines), prefix)

\* C10: the message text is taken from the first "Message:" line of the reply
\* and the termination decision from the first "EndState:" line; later lines
\* with the same label are ignored.
C10_FirstLineWins ==
    parsed # Nothing
        => LET lines == StrippedLines(SplitLines(reply))
               message == FirstLineWith(lines, MessagePrefix)
               end_state == FirstLineWith(lines, EndStatePrefix)
           IN  /\ message # <<>> => parsed.message_text = Strip(AfterColon(message))
               /\ end_state # <<>> => parsed.end_state = Upper(Strip(AfterColon(end_state)))

\* C11: a turn whose reply has no "EndState:" line returns normally, runs
\* no evaluation, and leaves the session active with its outcome unset.
C11_MissingEndStateContinues ==
    [][(/\ last'.op = "generate"
        /\ Len(last'.llm) >= 1
        /\ last'.llm[1].ok
        /\ FirstLineWith(StrippedLines(SplitLines(reply)), EndStatePrefix) = <<>>)
          => /\ ~last'.raised
             /\ Len(last'.llm) = 1
             /\ simulation_events' = simulation_events
             /\ simulation_events'[last'.event[2]].is_active
             /\ simulation_events'[last'.event[2]].outcome_label = None
             /\ simulation_events'[last'.event[2]].evaluation_summary = NoText]_vars

C11_Witness ==
    /\ last.op = "generate"
    /\ reply = MessageLabel \o Sp \o HeyThere
    /\ last.llm = <<Returned(reply)>>
    /\ last.message # NoId
    /\ MessageOf(last.message).text = HeyThere
    /\ EventOf(last.event).is_active
    /\ EventOf(last.event).outcome_label = None

\* the lines of an evaluation reply, each trimmed
TrimmedLines(text) ==
    [i \in 1..Len(SplitLines(text)) |-> Strip(SplitLines(text)[i])]

\* the upper-cased value of the first "Label:" line of an evaluation reply
LabelValue(text) ==
    Upper(Strip(AfterColon(FirstLineWith(TrimmedLines(text), LabelPrefix))))

\* the evaluation's gateway call answered, and the answer has a "Label:" line
AnsweredWithLabel ==
    /\ last.op = "evaluate"
    /\ last.llm # <<>>
    /\ last.llm[1].ok
    /\ FirstLineWith(TrimmedLines(last.llm[1].text), LabelPrefix) # <<>>

\* C12: the label returned for a reply with a Label line is UNSAFE if the
\* upper-cased value contains UNSAFE, else SAFE if it contains SAFE, else
\* NEEDS_REVIEW; and every returned label is one of the three.
C12_LabelPrecedence ==
    /\ last.op = "evaluate" => last.result[1] \in Labels
    /\ AnsweredWithLabel
          => LET value == LabelValue(last.llm[1].text)
             IN  last.result[1] =
                    IF Contains(value, WordUNSAFE) THEN "UNSAFE"
                    ELSE IF Contains(value, WordSAFE) THEN "SAFE"
                    ELSE "NEEDS_REVIEW"

C12_Witness ==
    /\ last.op = "evaluate"
    /\ reply = LabelLineUnsafe
    /\ last.llm = <<Returned(reply)>>
    /\ last.result[1] = "UNSAFE"

\* C13: an evaluation, of an active or an ended session, with the gateway
\* failing or answering, leaves the session, the session list and the message
\* store as they were.
C13_EvaluateChangesNothing ==
    [][last'.op = "evaluate"
          => /\ dm_messages' = dm_messages
             /\ simulation_events' = simulation_events]_vars

C13_Witness ==
    /\ last.op = "evaluate"
    /\ last.llm = <<Raised>>
    /\ last.result[1] = "NEEDS_REVIEW"
    /\ ~EventOf(last.event).is_active
    /\ EventOf(last.event).outcome_label = "UNSAFE"
    /\ EventOf(last.event).evaluation_summary = PhoneNumber

\* C14: an evaluation of a session whose scenario id is not in the catalog
\* returns NEEDS_REVIEW with a non-empty diagnostic, without raising and
\* without calling the gateway.
C14_UnknownScenarioEvaluated ==
    (last.op = "evaluate" /\ EventOf(last.event).scenario_id \notin ScenarioIds)
        => /\ ~last.raised
           /\ last.result[1] = "NEEDS_REVIEW"
           /\ last.result[2] # <<>>
           /\ last.result[2] # NoText
           /\ last.llm = <<>>

C14_Witness ==
    /\ last.op = "evaluate"
    /\ EventOf(last.event).scenario_id = UnknownScenarioId
    /\ last.result = <<"NEEDS_REVIEW", <<"Scenario data missing; unable to evaluate.">> >>

\* C15: an evaluation whose gateway call failed does not raise and returns
\* NEEDS_REVIEW with a summary naming the backend and the model.
C15_FailedEvaluation ==
    (last.op = "evaluate" /\ last.llm # <<>> /\ ~last.llm[1].ok)
        => /\ ~last.raised
           /\ last.result[1] = "NEEDS_REVIEW"
           /\ \E i \in 1..Len(last.result[2]) : last.result[2][i] = sim_llm_config.backend
           /\ \E i \in 1..Len(last.result[2]) : last.result[2][i] = sim_llm_config.model_name

C15_Witness ==
    /\ last.op = "evaluate"
    /\ last.llm = <<Raised>>
    /\ EventOf(last.event).is_active
    /\ last.result = <<"NEEDS_REVIEW",
                       <<"Could not run evaluation (", "openai", " ", "gpt-4.1-mini",
                         "): ", "{e}">> >>

\* the label the precedence UNSAFE, SAFE, NEEDS_REVIEW gives a label value
LabelFor(value) ==
    IF Contains(value, WordUNSAFE) THEN "UNSAFE"
    ELSE IF Contains(value, WordSAFE) THEN "SAFE"
    ELSE "NEEDS_REVIEW"

\* the reply is a "Label:" line followed by a "Summary:" line
LabelThenSummary ==
    /\ last.op = "evaluate"
    /\ last.llm # <<>>
    /\ last.llm[1].ok
    /\ \E l \in {LabelLineUnsafe, LabelLineMostlySafe, LabelLineNeedsReview,
                 LabelLineUnclear},
          t \in {SummaryLine, SummaryLineEmpty} : reply = JoinLines(<<l, t>>)

\* the text after "Summary:" on the second line of the reply
SummaryText == Strip(AfterColon(SplitLines(reply)[2]))

\* C16 as stated: a reply made of a "Label: L" line followed by a
\* "Summary: S" line yields exactly the label mapped from L, and S.
C16_LabelThenSummary ==
    LabelThenSummary
        => last.result = <<LabelFor(LabelValue(reply)), SummaryText>>

\* C16, amended: such a reply yields the label mapped from L, and S when S is
\* not empty; when S is empty the summary is the whole trimmed reply, label
\* line included.
C16_LabelThenSummaryNotEmpty ==
    LabelThenSummary
        => /\ last.result[1] = LabelFor(LabelValue(reply))
           /\ SummaryText # <<>> => last.result[2] = SummaryText
           /\ SummaryText = <<>> => last.result[2] = Strip(reply)

C16_Witness ==
    /\ last.op = "evaluate"
    /\ reply = JoinLines(<<LabelLineUnsafe, SummaryLine>>)
    /\ last.llm = <<Returned(reply)>>
    /\ last.result = <<"UNSAFE", PhoneNumber>>

\* lines without the one at index k
WithoutLine(lines, k) ==
    SubSeq(lines, 1, k - 1) \o SubSeq(lines, k + 1, Len(lines))

\* the summary made of every line of the reply but the first "Label:" line
SummaryKeepingOtherLines(text) ==
    LET lines == SplitLines(text)
        k == SetMin({i \in 1..Len(lines) :
                        StartsWith(Lower(Strip(lines[i])), LabelPrefix)})
        joined == Strip(JoinLines(WithoutLine(lines, k)))
        summary == IF StartsWith(Lower(joined), SummaryPrefix)
                   THEN Strip(AfterColon(joined)) ELSE joined
    IN  IF summary # <<>> THEN summary ELSE Strip(text)

\* C17: the summary is made of all lines of the reply except the first line
\* starting with "Label:", in order, joined and trimmed; a later line that
\* also starts with "Label:" is kept.
C17_SummaryKeepsOtherLines ==
    AnsweredWithLabel
        => last.result[2] = SummaryKeepingOtherLines(last.llm[1].text)

\* C18: a reply with no line starting with "Label:" yields NEEDS_REVIEW and
\* the trimmed reply as the summary.
C18_NoLabelLine ==
    (/\ last.op = "evaluate"
     /\ last.llm # <<>>
     /\ last.llm[1].ok
     /\ FirstLineWith(TrimmedLines(reply), LabelPrefix) = <<>>)
        => last.result = <<"NEEDS_REVIEW", Strip(reply)>>

C18_Witness ==
    /\ last.op = "evaluate"
    /\ reply = JoinLines(<<PlainLine, SummaryLine>>)
    /\ last.llm = <<Returned(Strip(reply))>>
    /\ last.result = <<"NEEDS_REVIEW", EvalNoLabel \o <<" ">> \o Nl \o SummaryLine>>

\* the ids of the scenarios returned, in the order returned
ScenarioIdsReturned == [i \in 1..Len(scenarios) |-> scenarios[i].id]

\* C19: the scenarios returned for an age are exactly the catalog scenarios
\* with min <= age <= max, in catalog order: each is returned at its min and
\* at its max, and not at min - 1 nor at max + 1.
C19_ScenariosForAge ==
    last.op = "scenarios"
        => /\ \A k \in 1..Len(DEFAULT_SCENARIOS) :
                 (\E i \in 1..Len(scenarios) : scenarios[i] = DEFAULT_SCENARIOS[k])
                    <=> (/\ DEFAULT_SCENARIOS[k].recommended_age_min <= age
                         /\ age <= DEFAULT_SCENARIOS[k].recommended_age_max)
           /\ \A i, j \in 1..Len(scenarios) :
                 i < j => \E k, l \in 1..Len(DEFAULT_SCENARIOS) :
                             /\ k < l
                             /\ scenarios[i] = DEFAULT_SCENARIOS[k]
                             /\ scenarios[j] = DEFAULT_SCENARIOS[l]
           /\ age = 7 => ScenarioIdsReturned = <<>>
           /\ age = 8 => ScenarioIdsReturned
                            = <<"stranger_asking_address", "unfriendly_comment">>
           /\ age = 9 => ScenarioIdsReturned
                            = <<"stranger_asking_address", "unfriendly_comment">>
           /\ age = 10 => ScenarioIdsReturned
                            = <<"stranger_asking_address", "peer_pressure_share_photo",
                                "unfriendly_comment">>
           /\ age = 15 => ScenarioIdsReturned
                            = <<"stranger_asking_address", "peer_pressure_share_photo",
                                "unfriendly_comment">>
           /\ age = 16 => ScenarioIdsReturned
                            = <<"peer_pressure_share_photo", "unfriendly_comment">>
           /\ age = 17 => ScenarioIdsReturned
                            = <<"peer_pressure_share_photo", "unfriendly_comment">>
           /\ age = 18 => ScenarioIdsReturned = <<>>

C19_Witness ==
    /\ last.op = "scenarios"
    /\ age = 17
    /\ ScenarioIdsReturned = <<"peer_pressure_share_photo", "unfriendly_comment">>

\* the line a message is rendered as
LabelledLine(m) ==
    (IF m.sender_profile_id = child.profile_id
     THEN <<"C", "H", "I", "L", "D", ":", " ">>
     ELSE <<"P", "A", "R", "T", "N", "E", "R", ":", " ">>) \o m.text

\* the indices of the stored messages of the conversation rendered
InRendered == {i \in 1..Len(dm_messages) :
                  dm_messages[i].conversation_id = ConvId("profile_a")}

\* the smaller of two numbers
Min(a, b) == IF a <= b THEN a ELSE b

C21_NoEmptySuccess ==
    \A i \in 1..Len(last.llm) : last.llm[i].ok => last.llm[i].text # <<>>

\* the partner the child's message of a send step went to
SentTo == dm_messages'[Len(dm_messages) + 1].receiver_profile_id

\* the sessions with partner that are active when the turn is generated
ActiveWith(partner) ==
    {i \in 1..Len(simulation_events) :
        /\ simulation_events[i].partner_profile_id = partner
        /\ simulation_events[i].is_active}

\* C22: on a child send, the session given the generated turn is an active
\* session with the partner written to, and no other active session with that
\* partner was created strictly later; when the partner has no active session
\* no turn is generated (no session is named, the gateway is not called).
C22_TurnGoesToLatestActive ==
    [][last'.op = "send" =>
        IF ActiveWith(SentTo) = {}
        THEN last'.event = NoId /\ last'.llm = <<>>
        ELSE \E i \in ActiveWith(SentTo) :
                /\ last'.event = simulation_events[i].id
                /\ \A j \in ActiveWith(SentTo) :
                      simulation_events[j].created_at <= simulation_events[i].created_at
    ]_vars

\* a send reached a partner with two active sessions, and the turn it
\* generated ended the later one
C22_Witness ==
    /\ last.op = "send"
    /\ Len(last.llm) = 2
    /\ Len(simulation_events) = 2
    /\ simulation_events[1].partner_profile_id = simulation_events[2].partner_profile_id
    /\ simulation_events[1].is_active
    /\ ~simulation_events[2].is_active
    /\ last.event = simulation_events[2].id

\* C23: the message store is append-only: across every operation (start,
\* generate, evaluate, child send, manual end) the store before the step is a
\* prefix of the store after it.
C23_StoreAppendOnly ==
    [][/\ Len(dm_messages) <= Len(dm_messages')
       /\ SubSeq(dm_messages', 1, Len(dm_messages)) = dm_messages
    ]_vars

\* a generated turn added its message behind the opener of its session
C23_Witness ==
    /\ last.op = "generate"
    /\ Len(dm_messages) = 2
    /\ last.message = dm_messages[2].id
    /\ dm_messages[1].id = EventOf(last.event).incoming_message_id

\* C24: generate is a no-op when the session's scenario id does not resolve
\* or the conversation it is asked for holds no message: it returns no
\* message, does not call the gateway, appends nothing and leaves the session
\* as it was.
C24_GenerateNoOp ==
    [][/\ last'.op = "generate"
       /\ \/ get_scenario_by_id(simulation_events[1].scenario_id) = NoScenario
          \/ InConversation(dm_messages, last'.conv_id) = <<>>
       => /\ last'.message = NoId
          /\ last'.llm = <<>>
          /\ dm_messages' = dm_messages
          /\ simulation_events' = simulation_events
    ]_vars

\* the turn was asked of a session of a catalog scenario, for a conversation
\* without any message, while the backend had an ending reply ready
C24_Witness ==
    /\ last.op = "generate"
    /\ get_scenario_by_id(simulation_events[1].scenario_id) # NoScenario
    /\ InConversation(dm_messages, last.conv_id) = <<>>
    /\ ParsedTurnReplies[Strip(reply)].end_state = WordEND
    /\ ParsedTurnReplies[Strip(reply)].message_text = Bye
    /\ simulation_events[1].is_active

\* C25: a session started on the canned fallback (the gateway call failed)
\* does not carry the (backend_used, model_used) pair the same call stores
\* when the gateway succeeds, which is the configured (backend, model_name).
C25_FallbackNotAttributed ==
    (last.op = "start" /\ last.llm = <<Raised>>)
        => <<EventOf(last.event).backend_used, EventOf(last.event).model_used>>
              # <<sim_llm_config.backend, sim_llm_config.model_name>>

\* the position of the message id in the store
PositionOf(id) == CHOOSE j \in 1..Len(dm_messages) : dm_messages[j].id = id

\* the messages the child sent to partner behind position p of the store
ChildMessagesAfter(p, partner) ==
    {j \in (p + 1)..Len(dm_messages) :
        /\ dm_messages[j].sender_profile_id = child.profile_id
        /\ dm_messages[j].receiver_profile_id = partner}

\* C26: the child_reply_message_id of a session, once set, is the id of the
\* earliest message the child sent to the session's partner after the
\* session's incoming message.
C26_ReplyIsEarliestAfterIncoming ==
    \A i \in 1..Len(simulation_events) :
        LET event == simulation_events[i]
            after == ChildMessagesAfter(PositionOf(event.incoming_message_id),
                                        event.partner_profile_id)
        IN  event.child_reply_message_id # NoId
                => event.child_reply_message_id = dm_messages[SetMin(after)].id

\* C29: driven by the app's handlers, no partner has more than one active
\* session.
C29_OneActivePerPartner ==
    \A i, j \in 1..Len(simulation_events) :
        /\ simulation_events[i].is_active
        /\ simulation_events[j].is_active
        /\ simulation_events[i].partner_profile_id = simulation_events[j].partner_profile_id
        => i = j

\* a second session was started with a partner whose first one had ended
C29_Witness ==
    /\ last.op = "start"
    /\ Len(simulation_events) = 2
    /\ simulation_events[1].partner_profile_id = simulation_events[2].partner_profile_id
    /\ ~simulation_events[1].is_active
    /\ simulation_events[2].is_active

\* C27: when the reply carries a message other than NONE together with
\* END, the final message is appended before the evaluation runs (the last
\* line of the transcript given to the evaluation is that message), the session
\* ends inactive with its outcome set, and the final message is returned.
C27_FinalMessageThenEvaluation ==
    [][(last'.op = "generate" /\ ReplySaysEnd(last') /\ ReplyMessage(last') # <<>>)
        => /\ Len(dm_messages') = Len(dm_messages) + 1
           /\ SubSeq(dm_messages', 1, Len(dm_messages)) = dm_messages
           /\ dm_messages'[Len(dm_messages')].text = ReplyMessage(last')
           /\ last'.message = dm_messages'[Len(dm_messages')].id
           /\ last'.transcript # NoText
           /\ LET lines == SplitLines(last'.transcript)
              IN  lines[Len(lines)] = HistoryLine(dm_messages'[Len(dm_messages')])
           /\ ~simulation_events'[1].is_active
           /\ simulation_events'[1].outcome_label \in Labels
           /\ simulation_events'[1].evaluation_summary # NoText
    ]_vars

\* the reply said "Bye!" and END: the evaluation read the opener and "Bye!"
C27_Witness ==
    /\ last.op = "generate"
    /\ ReplySaysEnd(last)
    /\ ReplyMessage(last) = Bye
    /\ Len(last.llm) = 2
    /\ Len(SplitLines(last.transcript)) = 2
    /\ ~simulation_events[1].is_active

\* C28: a turn ends its session exactly when the EndState parsed from the
\* reply, trimmed and upper-cased, is END; with any other value (CONTINUE,
\* nothing, "END.", "ENDED") and whenever no reply was parsed the session is
\* left as it was, active with its outcome unset.
C28_EndsOnlyOnEND ==
    [][last'.op = "generate"
        => IF /\ last'.llm # <<>>
              /\ last'.llm[1].ok
              /\ ParseTurnReply(last'.llm[1].text).end_state = WordEND
           THEN simulation_events[1].is_active /\ ~simulation_events'[1].is_active
           ELSE simulation_events' = simulation_events
    ]_vars

\* the reply's end state was END. or ENDED and the session is still active
C28_Witness ==
    /\ last.op = "generate"
    /\ last.llm # <<>>
    /\ last.llm[1].ok
    /\ ParseTurnReply(last.llm[1].text).end_state
          \in {WordEND \o <<".">>, WordEND \o <<"E", "D">>}
    /\ simulation_events[1].is_active
    /\ simulation_events[1].outcome_label = None

\* C30: when two calls of generate on the same active session overlap at the
\* gateway call and both replies say END, the session is evaluated, and its
\* outcome written, by at most one of them.
C30_EvaluatedAtMostOnce ==
    Cardinality({c \in Callers : calls[c].evaluated}) <= 1

====
